---- MODULE Spec2Model ----
(***************************************************************************)
(* A model of the persistence and migration layer of the habit tracker:    *)
(* class GithubHandler of src/github_handler.py.  The document store (a    *)
(* gist, or the directory local_data) is a mapping from file names to      *)
(* document contents; a handler object holds the habit catalog, the        *)
(* current-month cache, the current journal and the current month tag.     *)
(* Every public method of the handler is one action.  In remote mode each  *)
(* HTTP request may fail: its outcome is an input of the action.           *)
(***************************************************************************)
EXTENDS Integers, Sequences, FiniteSets, TLC

VARIABLES
    store,      \* file name -> <<>> (absent) or <<content>> (present)
    local,      \* self.local: the store is the directory local_data
    creds,      \* self.token and self.gist_id are both set
    handler,    \* handler object -> its fields
    last,       \* the last public call: its name, arguments and outcomes
    failures    \* the requests that have failed so far

vars == <<store, local, creds, handler, last, failures>>

----------------------------------------------------------------------------
(* Bound of the model.                                                     *)

\* requests that may fail in a run (remote mode)
MaxFailures == 1

----------------------------------------------------------------------------
(* Dates, date strings and file names.                                     *)

YMs == {<<2024, 1>>, <<2024, 2>>}

Day(year, month, day) == [year |-> year, month |-> month, day |-> day]

\* the dates of the calls: two days of January 2024 and one of February
Dates == { Day(2024, 1, 1), Day(2024, 1, 2), Day(2024, 2, 1) }

NoDate == [year |-> 0, month |-> 0, day |-> 0]

\* date.strftime("%Y-%m-%d"): the ten characters YYYY-MM-DD, held as the
\* number YYYYMMDD (the fields are zero padded, so the text and the number
\* determine each other).
strftime(date) == date.year * 10000 + date.month * 100 + date.day

\* datetime.strptime(s, "%Y-%m-%d"): the year and the month of a date string.
strptime_year(s) == s \div 10000

strptime_month(s) == (s \div 100) % 100

old_filename == [kind |-> "habit_tracker_data", year |-> 0, month |-> 0]

habits_filename == [kind |-> "habits", year |-> 0, month |-> 0]

\* f"data_{year}_{month:02d}.json"
data_filename(year, month) == [kind |-> "data", year |-> year, month |-> month]

\* f"journal_{year}_{month:02d}.json"
journal_filename(year, month) == [kind |-> "journal", year |-> year, month |-> month]

Filenames ==
    {old_filename, habits_filename}
        \cup {data_filename(ym[1], ym[2]) : ym \in YMs}
        \cup {journal_filename(ym[1], ym[2]) : ym \in YMs}

Handlers == {1, 2}

----------------------------------------------------------------------------
(* Python values.                                                          *)

\* a dict is a function from its keys; {} is the function of no key
EmptyDict == [k \in {} |-> ""]

\* a.update(b)
dict_update(a, b) ==
    [k \in (DOMAIN a) \cup (DOMAIN b) |-> IF k \in DOMAIN b THEN b[k] ELSE a[k]]

\* {"logs": [], "metrics": []}
EmptyMonth == [logs |-> <<>>, metrics |-> <<>>]

\* no file at all
NoFiles == [f \in Filenames |-> <<>>]

\* a habit ID is an int or a str; str(ID) is its text
IntId(text) == [type |-> "int", text |-> text]

StrId(text) == [type |-> "str", text |-> text]

str(id) == id.text

Habit(id, name, goal) ==
    ("ID" :> id) @@ ("Habit Name" :> name) @@ ("Monthly Goal" :> goal)

Metric(date_str, v) ==
    ("Date" :> date_str) @@ ("Screen Time (min)" :> v[1]) @@ ("Mood (1-10)" :> v[2])
        @@ ("Energy (1-10)" :> v[3]) @@ ("Achievements" :> v[4])

\* the index of the first entry of a list whose Date is date_str, 0 if none
\* (the loops "for l in logs: if l.get("Date") == date_str: ...; break")
FirstWithDate(entries, date_str) ==
    LET hits == {i \in 1 .. Len(entries) : entries[i]["Date"] = date_str}
    IN  IF hits = {} THEN 0 ELSE CHOOSE i \in hits : \A j \in hits : i <= j

----------------------------------------------------------------------------
(* The document store adapter.                                             *)

\* _fetch_all_gist_files answering with the files whatever the request did
fetch_all_gist_files_anyway(ok) == store

\* _fetch_all_gist_files: every file of the store; {} when the credentials
\* are missing or the request fails (ok: the GET answered 200).
fetch_all_gist_files(ok) ==
    IF local THEN store
    ELSE IF ~creds THEN NoFiles
    ELSE IF ok THEN store
    ELSE NoFiles

\* what _upload_to_gist returns (ok: the PATCH answered 200)
upload_result(ok) ==
    IF local THEN TRUE
    ELSE IF ~creds THEN FALSE
    ELSE ok

\* one call of _upload_to_gist: its arguments and what it returns
upload_to_gist(filename, data, ok) ==
    [filename |-> filename, data |-> data, result |-> upload_result(ok)]

\* whether _delete_from_gist removes the file (ok: the PATCH succeeded)
delete_result(ok) ==
    IF local THEN TRUE ELSE creds /\ ok

\* one call of _delete_from_gist: its argument and whether the file is removed
delete_from_gist(filename, ok) ==
    [filename |-> filename, result |-> delete_result(ok)]

\* the store after calls of _upload_to_gist on different files
after_uploads(files, uploads) ==
    [f \in Filenames |->
        IF \E u \in uploads : u.filename = f /\ u.result
        THEN << (CHOOSE u \in uploads : u.filename = f /\ u.result).data >>
        ELSE files[f]]

\* the store after calls of _delete_from_gist
after_deletes(files, deletes) ==
    [f \in Filenames |->
        IF \E d \in deletes : d.filename = f /\ d.result THEN <<>> ELSE files[f]]

\* _save_habits: its call of _upload_to_gist
save_habits(self, ok) ==
    { upload_to_gist(habits_filename, self.habits, ok) }

\* whether _save_current_month uploads at all
has_current_month(self) ==
    self.current_year # 0 /\ self.current_month # 0

\* _save_current_month: its call of _upload_to_gist, if any
save_current_month(self, ok) ==
    IF has_current_month(self)
    THEN { upload_to_gist(data_filename(self.current_year, self.current_month),
                          self.current_month_data, ok) }
    ELSE {}

----------------------------------------------------------------------------
(* The monthly data cache.                                                 *)

\* load_month leaving the empty document in the cache whatever is stored
load_month_empty(self, year, month, files) ==
    [self EXCEPT
        !.current_year = year,
        !.current_month = month,
        !.current_month_data = EmptyMonth]

\* load_month keeping the cache when the file of the month is not there
load_month_keeping(self, year, month, files) ==
    [self EXCEPT
        !.current_year = year,
        !.current_month = month,
        !.current_month_data =
            IF files[data_filename(year, month)] # <<>>
            THEN files[data_filename(year, month)][1]
            ELSE @]

\* load_month: the handler after the call, files being what was fetched
load_month(self, year, month, files) ==
    [self EXCEPT
        !.current_year = year,
        !.current_month = month,
        !.current_month_data =
            IF files[data_filename(year, month)] # <<>>
            THEN files[data_filename(year, month)][1]
            ELSE EmptyMonth]

\* other_month answering that the month is always to be loaded
other_month_always(self, date) == TRUE

\* other_month with the months not compared
other_month_by_year(self, date) ==
    date.year # self.current_year

\* the test of save_log and save_metrics for loading the month of the date
other_month(self, date) ==
    date.year # self.current_year \/ date.month # self.current_month

\* upsert_log leaving the entry of the date alone in the list
upsert_log_alone(logs, date_str, habit_completions) ==
    << dict_update("Date" :> date_str, habit_completions) >>

\* upsert_log with the entry found replaced, not updated
upsert_log_replacing(logs, date_str, habit_completions) ==
    LET i == FirstWithDate(logs, date_str)
        new_log == dict_update("Date" :> date_str, habit_completions)
    IN  IF i # 0 THEN [logs EXCEPT ![i] = new_log] ELSE Append(logs, new_log)

\* save_log, lines 254-266: the logs after the upsert
upsert_log(logs, date_str, habit_completions) ==
    LET i == FirstWithDate(logs, date_str)
    IN  IF i # 0
        THEN [logs EXCEPT ![i] = dict_update(logs[i], habit_completions)]
        ELSE Append(logs, dict_update("Date" :> date_str, habit_completions))

\* upsert_metrics without the search for the entry of the date
upsert_metrics_appending(metrics, date_str, values) ==
    Append(metrics, values)

\* upsert_metrics with the values of the entry found kept
upsert_metrics_keeping(metrics, date_str, values) ==
    LET i == FirstWithDate(metrics, date_str)
    IN  IF i # 0
        THEN [metrics EXCEPT ![i] = dict_update(values, metrics[i])]
        ELSE Append(metrics, values)

\* save_metrics, lines 286-304: the metrics after the upsert
upsert_metrics(metrics, date_str, values) ==
    LET i == FirstWithDate(metrics, date_str)
    IN  IF i # 0
        THEN [metrics EXCEPT ![i] = dict_update(metrics[i], values)]
        ELSE Append(metrics, values)

----------------------------------------------------------------------------
(* The habit catalog.                                                      *)

\* the index of the first habit whose str(ID) is str(habit_id), 0 if none
FirstWithId(habits, habit_id) ==
    LET hits == {i \in 1 .. Len(habits) : str(habits[i]["ID"]) = str(habit_id)}
    IN  IF hits = {} THEN 0 ELSE CHOOSE i \in hits : \A j \in hits : i <= j

\* update_habit with the IDs compared as they are, not their str()
update_habit_by_value(habits, habit_id, name, goal) ==
    LET hits == {i \in 1 .. Len(habits) : habits[i]["ID"] = habit_id}
        i == IF hits = {} THEN 0 ELSE CHOOSE i \in hits : \A j \in hits : i <= j
    IN  IF i # 0
        THEN [habits EXCEPT ![i] =
                 dict_update(habits[i],
                             ("Habit Name" :> name) @@ ("Monthly Goal" :> goal))]
        ELSE Append(habits, Habit(habit_id, name, goal))

\* update_habit without the search: the record is always appended
update_habit_appending(habits, habit_id, name, goal) ==
    Append(habits, Habit(habit_id, name, goal))

\* update_habit, lines 207-217: the catalog after the upsert
update_habit(habits, habit_id, name, goal) ==
    LET i == FirstWithId(habits, habit_id)
    IN  IF i # 0
        THEN [habits EXCEPT ![i] =
                 dict_update(habits[i],
                             ("Habit Name" :> name) @@ ("Monthly Goal" :> goal))]
        ELSE Append(habits, Habit(habit_id, name, goal))

\* delete_habit with the IDs compared as they are, not their str()
delete_habit_by_value(habits, habit_id) ==
    SelectSeq(habits, LAMBDA h : h["ID"] # habit_id)

\* delete_habit, line 221: the catalog after the deletion
delete_habit(habits, habit_id) ==
    SelectSeq(habits, LAMBDA h : str(h["ID"]) # str(habit_id))

----------------------------------------------------------------------------
(* The journal.                                                            *)

\* load_journal: the handler after the call, files being what was fetched
load_journal(self, year, month, files) ==
    [self EXCEPT
        !.current_journal_data =
            IF files[journal_filename(year, month)] # <<>>
            THEN files[journal_filename(year, month)][1]
            ELSE EmptyDict]

\* save_journal, lines 313-318: whether the journal of the date is loaded
\* first.  The file name compared with is built from current_year and
\* current_month, which load_month sets.
other_journal(self, date) ==
    IF self.current_year # 0
    THEN journal_filename(date.year, date.month)
             # journal_filename(self.current_year, self.current_month)
    ELSE TRUE

----------------------------------------------------------------------------
(* The history of all months.                                              *)

\* the names f"data_{year}_{month:02d}.json" among the files fetched
fetched_data_files(files) ==
    { f \in Filenames : f.kind = "data" /\ files[f] # <<>> }

\* sorted(months): the (year, month) pairs in increasing order
RECURSIVE sorted(_)
sorted(months) ==
    IF months = {} THEN <<>>
    ELSE LET least == CHOOSE a \in months :
                          \A b \in months : a[1] < b[1] \/ (a[1] = b[1] /\ a[2] <= b[2])
         IN  <<least>> \o sorted(months \ {least})

\* get_all_available_months: what it returns, files being what was fetched
get_all_available_months(files) ==
    sorted({ <<f.year, f.month>> : f \in fetched_data_files(files) })

\* load_all_history, lines 158-163: the lists after the files named in
\* order, the order in which files.items() yields the monthly files
RECURSIVE extend_history(_, _, _)
extend_history(files, order, all) ==
    IF order = <<>> THEN all
    ELSE LET month_data == files[Head(order)][1]
         IN  extend_history(files, Tail(order),
                            [logs |-> all.logs \o month_data.logs,
                             metrics |-> all.metrics \o month_data.metrics])

\* the orders in which a dict can yield the given keys
Orders(keys) ==
    { order \in [1 .. Cardinality(keys) -> keys] :
          \A i, j \in 1 .. Cardinality(keys) : order[i] = order[j] => i = j }

\* load_all_history taking the loaded month from the cache of the handler
load_all_history_cached(files, order) ==
    LET self == handler[1]
        current == data_filename(self.current_year, self.current_month)
    IN  extend_history([f \in Filenames |->
                           IF f = current /\ files[f] # <<>>
                           THEN <<self.current_month_data>>
                           ELSE files[f]],
                       order, [logs |-> <<>>, metrics |-> <<>>])

\* load_all_history: what it returns
load_all_history(files, order) ==
    extend_history(files, order, [logs |-> <<>>, metrics |-> <<>>])

----------------------------------------------------------------------------
(* Migration of the legacy document.                                       *)

\* lines 51-61: the buckets after the entries, taken in order
RECURSIVE monthly_buckets(_, _)
monthly_buckets(entries, buckets) ==
    IF entries = <<>> THEN buckets
    ELSE LET entry == Head(entries)
             key == data_filename(strptime_year(entry["Date"]),
                                  strptime_month(entry["Date"]))
             b0 == IF key \in DOMAIN buckets THEN buckets
                   ELSE buckets @@ (key :> EmptyMonth)
             b1 == IF "Mood (1-10)" \in DOMAIN entry
                   THEN [b0 EXCEPT ![key].metrics = Append(@, entry)]
                   ELSE [b0 EXCEPT ![key].logs = Append(@, entry)]
         IN  monthly_buckets(Tail(entries), b1)

NoBuckets == [k \in {} |-> EmptyMonth]

\* legacy_buckets with one bucket, that of the first entry, for all entries
legacy_buckets_of_first(legacy_data) ==
    LET entries == legacy_data.logs \o legacy_data.metrics
    IN  IF entries = <<>> THEN NoBuckets
        ELSE data_filename(strptime_year(entries[1]["Date"]),
                           strptime_month(entries[1]["Date"]))
                 :> [logs |-> SelectSeq(entries, LAMBDA e : "Mood (1-10)" \notin DOMAIN e),
                     metrics |-> SelectSeq(entries, LAMBDA e : "Mood (1-10)" \in DOMAIN e)]

\* lines 44-61: the buckets of a legacy document
legacy_buckets(legacy_data) ==
    monthly_buckets(legacy_data.logs \o legacy_data.metrics, NoBuckets)

\* lines 65-66: the uploads of the buckets; uploaded holds the file names
\* whose request succeeds
upload_buckets(buckets, uploaded) ==
    { upload_to_gist(f, buckets[f], f \in uploaded) : f \in DOMAIN buckets }

\* default_habits.json, when it exists: a list of habits without ID
default_habits ==
    << ("Habit Name" :> "Read") @@ ("Monthly Goal" :> 20),
       ("Habit Name" :> "Walk") @@ ("Monthly Goal" :> 30) >>

\* lines 87-90: the defaults with an ID given to those that have none;
\* uuid4[i] is what the i-th call of uuid.uuid4() returns
with_ids(defaults, uuid4) ==
    [i \in 1 .. Len(defaults) |->
        IF "ID" \in DOMAIN defaults[i] THEN defaults[i]
        ELSE dict_update(defaults[i], "ID" :> uuid4[i])]

\* lines 72-92: the catalog of a store without legacy document
loaded_habits(fetch_all, defaults_exist, uuid4) ==
    LET habits == IF fetch_all[habits_filename] # <<>>
                  THEN fetch_all[habits_filename][1]
                  ELSE <<>>
    IN  IF habits # <<>> THEN habits
        ELSE IF defaults_exist THEN with_ids(default_habits, uuid4)
        ELSE <<>>

\* __init__, lines 30-34: the fields before _initial_load_and_migrate
NewHandler ==
    [constructed |-> TRUE,
     habits |-> <<>>,
     current_month_data |-> EmptyMonth,
     current_journal_data |-> EmptyDict,
     current_year |-> 0,
     current_month |-> 0]

\* no handler object yet
NoHandler == [NewHandler EXCEPT !.constructed = FALSE]

\* _initial_load_and_migrate: whether the legacy branch is taken
migrates(fetch_all) == fetch_all[old_filename] # <<>>

\* _initial_load_and_migrate: the catalog after the call
initial_habits(fetch_all, defaults_exist, uuid4) ==
    IF migrates(fetch_all)
    THEN fetch_all[old_filename][1].habits
    ELSE loaded_habits(fetch_all, defaults_exist, uuid4)

\* _initial_load_and_migrate writing the legacy document back when it
\* migrates
initial_uploads_with_legacy(self, fetch_all, habits_ok, uploaded) ==
    IF migrates(fetch_all)
    THEN save_habits(self, habits_ok)
             \cup upload_buckets(legacy_buckets(fetch_all[old_filename][1]), uploaded)
             \cup { upload_to_gist(old_filename, fetch_all[old_filename][1], habits_ok) }
    ELSE IF fetch_all[habits_filename] # <<>> /\ fetch_all[habits_filename][1] # <<>>
    THEN {}
    ELSE save_habits(self, habits_ok)

\* _initial_load_and_migrate saving the catalog after every normal load
initial_uploads_always(self, fetch_all, habits_ok, uploaded) ==
    IF migrates(fetch_all)
    THEN save_habits(self, habits_ok)
             \cup upload_buckets(legacy_buckets(fetch_all[old_filename][1]), uploaded)
    ELSE save_habits(self, habits_ok)

\* _initial_load_and_migrate: its calls of _upload_to_gist.  habits_ok and
\* uploaded are the outcomes of the requests.
initial_uploads(self, fetch_all, habits_ok, uploaded) ==
    IF migrates(fetch_all)
    THEN save_habits(self, habits_ok)
             \cup upload_buckets(legacy_buckets(fetch_all[old_filename][1]), uploaded)
    ELSE IF fetch_all[habits_filename] # <<>> /\ fetch_all[habits_filename][1] # <<>>
    THEN {}
    ELSE save_habits(self, habits_ok)

\* _initial_load_and_migrate: its call of _delete_from_gist, if any
initial_deletes(fetch_all, deleted) ==
    IF migrates(fetch_all) THEN { delete_from_gist(old_filename, deleted) } ELSE {}

----------------------------------------------------------------------------
(* Full reset.                                                             *)

\* reset_data, lines 227-230: its calls of _delete_from_gist; deleted holds
\* the file names whose request succeeds
reset_deletes(fetch_all, deleted) ==
    { delete_from_gist(f, f \in deleted) : f \in {g \in Filenames : fetch_all[g] # <<>>} }

\* reset_data, lines 231-232: the handler after the call
reset_handler(self) ==
    [self EXCEPT !.habits = <<>>, !.current_month_data = EmptyMonth]

----------------------------------------------------------------------------
(* The last call and the failures of a run.                                *)

\* the outcome of a fetch, as last records it
Fetched(ok) ==
    IF local \/ (creds /\ ok) THEN "ok" ELSE "failed"

\* the requests of a call that failed although the credentials are there
Failed(fetch, uploads, deletes) ==
    IF local \/ ~creds THEN 0
    ELSE (IF fetch = "failed" THEN 1 ELSE 0)
             + Cardinality({u \in uploads : ~u.result})
             + Cardinality({d \in deletes : ~d.result})

\* no call yet
NoCall ==
    [op |-> "none", h |-> 0, date |-> NoDate, args |-> <<>>,
     before |-> <<0, 0>>, again |-> FALSE, fetch |-> "none",
     uploads |-> {}, deletes |-> {}, returned |-> <<>>, migrations |-> 0]

\* whether two calls of op name the same habit (any two calls of the other
\* methods do)
SameHabit(op, args1, args2) ==
    IF op \in {"update_habit", "delete_habit"} THEN args1[1] = args2[1] ELSE TRUE

\* A call op(args) on handler h that leaves the handler as self, after the
\* given fetch ("none": it fetches nothing), uploads and deletes, and returns
\* returned (<<>>: None).  last also keeps the month tag before the call,
\* whether the call before was of the same method on the same handler, date
\* and habit, and how many constructions have taken the legacy branch.
Call(op, h, date, args, self, fetch, uploads, deletes, returned) ==
    /\ handler' = [handler EXCEPT ![h] = self]
    /\ store' = after_deletes(after_uploads(store, uploads), deletes)
    /\ last' = [op |-> op, h |-> h, date |-> date, args |-> args,
                before |-> <<handler[h].current_year, handler[h].current_month>>,
                again |-> /\ last.op = op
                          /\ last.h = h
                          /\ last.date = date
                          /\ SameHabit(op, last.args, args),
                fetch |-> fetch, uploads |-> uploads, deletes |-> deletes,
                returned |-> returned,
                migrations |-> last.migrations
                                   + (IF op = "construct" /\ args[1] THEN 1 ELSE 0)]
    /\ failures' = failures + Failed(fetch, uploads, deletes)
    /\ failures' <= MaxFailures
    /\ UNCHANGED <<local, creds>>

\* the outcomes a request can have: in local mode there is no request,
\* without credentials no request succeeds, and at most MaxFailures
\* requests of a run fail
Outcomes ==
    IF local \/ ~creds \/ failures >= MaxFailures THEN {TRUE} ELSE BOOLEAN

\* the sets of files whose requests can succeed
OutcomeSets(files) ==
    IF local \/ ~creds THEN {files}
    ELSE { files \ x : x \in { y \in SUBSET files : Cardinality(y) <= MaxFailures - failures } }

----------------------------------------------------------------------------
(* The actions: one per public method of GithubHandler.                    *)

\* GithubHandler(...): __init__ and _initial_load_and_migrate
Construct(h, fetch_ok, defaults_exist, uuid4, habits_ok, uploaded, deleted) ==
    LET fetch_all == fetch_all_gist_files(fetch_ok)
        self == [NewHandler EXCEPT
                    !.habits = initial_habits(fetch_all, defaults_exist, uuid4)]
    IN  Call("construct", h, NoDate, <<migrates(fetch_all)>>, self,
             Fetched(fetch_ok),
             initial_uploads(self, fetch_all, habits_ok, uploaded),
             initial_deletes(fetch_all, deleted),
             <<>>)

\* load_month(year, month)
LoadMonth(h, year, month, fetch_ok) ==
    LET self == load_month(handler[h], year, month, fetch_all_gist_files(fetch_ok))
    IN  /\ handler[h].constructed
        /\ Call("load_month", h, [year |-> year, month |-> month, day |-> 0], <<>>,
                self, Fetched(fetch_ok), {}, {}, <<self.current_month_data>>)

\* load_journal(year, month)
LoadJournal(h, year, month, fetch_ok) ==
    LET self == load_journal(handler[h], year, month, fetch_all_gist_files(fetch_ok))
    IN  /\ handler[h].constructed
        /\ Call("load_journal", h, [year |-> year, month |-> month, day |-> 0], <<>>,
                self, Fetched(fetch_ok), {}, {}, <<self.current_journal_data>>)

\* update_habit(habit_id, name, goal)
UpdateHabit(h, habit_id, name, goal, upload_ok) ==
    LET self == [handler[h] EXCEPT
                    !.habits = update_habit(@, habit_id, name, goal)]
    IN  /\ handler[h].constructed
        /\ Call("update_habit", h, NoDate, <<habit_id, name, goal>>,
                self, "none", save_habits(self, upload_ok), {}, <<>>)

\* delete_habit(habit_id)
DeleteHabit(h, habit_id, upload_ok) ==
    LET self == [handler[h] EXCEPT !.habits = delete_habit(@, habit_id)]
    IN  /\ handler[h].constructed
        /\ Call("delete_habit", h, NoDate, <<habit_id>>,
                self, "none", save_habits(self, upload_ok), {}, <<>>)

\* reset_data()
ResetData(h, fetch_ok, deleted) ==
    /\ handler[h].constructed
    /\ Call("reset_data", h, NoDate, <<>>, reset_handler(handler[h]),
            Fetched(fetch_ok), {},
            reset_deletes(fetch_all_gist_files(fetch_ok), deleted), <<TRUE>>)

\* save_log(date, habit_completions)
SaveLog(h, date, habit_completions, fetch_ok, upload_ok) ==
    LET switch == other_month(handler[h], date)
        loaded == IF switch
                  THEN load_month(handler[h], date.year, date.month,
                                  fetch_all_gist_files(fetch_ok))
                  ELSE handler[h]
        self == [loaded EXCEPT
                    !.current_month_data.logs =
                        upsert_log(@, strftime(date), habit_completions)]
    IN  /\ handler[h].constructed
        /\ switch \/ fetch_ok
        /\ Call("save_log", h, date, <<habit_completions>>, self,
                IF switch THEN Fetched(fetch_ok) ELSE "none",
                save_current_month(self, upload_ok), {}, <<>>)

\* save_metrics(date, screen_time, mood, energy, achievements)
SaveMetrics(h, date, values, fetch_ok, upload_ok) ==
    LET switch == other_month(handler[h], date)
        loaded == IF switch
                  THEN load_month(handler[h], date.year, date.month,
                                  fetch_all_gist_files(fetch_ok))
                  ELSE handler[h]
        self == [loaded EXCEPT
                    !.current_month_data.metrics =
                        upsert_metrics(@, strftime(date), Metric(strftime(date), values))]
    IN  /\ handler[h].constructed
        /\ switch \/ fetch_ok
        /\ Call("save_metrics", h, date, <<values>>, self,
                IF switch THEN Fetched(fetch_ok) ELSE "none",
                save_current_month(self, upload_ok), {}, <<>>)

\* save_journal(date, content)
SaveJournal(h, date, content, fetch_ok, upload_ok) ==
    LET switch == other_journal(handler[h], date)
        loaded == IF switch
                  THEN load_journal(handler[h], date.year, date.month,
                                    fetch_all_gist_files(fetch_ok))
                  ELSE handler[h]
        self == [loaded EXCEPT
                    !.current_journal_data =
                        dict_update(@, strftime(date) :> content)]
    IN  /\ handler[h].constructed
        /\ switch \/ fetch_ok
        /\ Call("save_journal", h, date, <<content>>, self,
                IF switch THEN Fetched(fetch_ok) ELSE "none",
                { upload_to_gist(journal_filename(date.year, date.month),
                                 self.current_journal_data, upload_ok) },
                {}, <<>>)

\* get_all_available_months()
GetAllAvailableMonths(h, fetch_ok) ==
    /\ handler[h].constructed
    /\ Call("get_all_available_months", h, NoDate, <<>>, handler[h],
            Fetched(fetch_ok), {}, {},
            <<get_all_available_months(fetch_all_gist_files(fetch_ok))>>)

\* load_all_history()
LoadAllHistory(h, fetch_ok, order) ==
    /\ handler[h].constructed
    /\ Call("load_all_history", h, NoDate, <<order>>, handler[h],
            Fetched(fetch_ok), {}, {},
            <<load_all_history(fetch_all_gist_files(fetch_ok), order)>>)

----------------------------------------------------------------------------
(* The inputs of the calls.                                                *)

\* habit_id of update_habit and delete_habit
HabitIds == { IntId("1"), StrId("1"), StrId("u") }

\* what the calls of uuid.uuid4() of one default seeding return: no two
\* calls return the same
Uuids == { <<StrId("u"), StrId("v")>>, <<StrId("v"), StrId("u")>> }

\* name and goal of update_habit
NameGoals == { <<"Run", 20>>, <<"Swim", 10>> }

DataFiles == { data_filename(ym[1], ym[2]) : ym \in YMs }

----------------------------------------------------------------------------
(* The documents a store may hold before the first handler is built.       *)

Jan1 == strftime(Day(2024, 1, 1))

Feb1 == strftime(Day(2024, 2, 1))

LegacyDocument ==
    [habits |-> << Habit(IntId("1"), "Run", 20) >>,
     logs |-> << ("Date" :> Jan1) @@ ("H1" :> "Yes"),
                 ("Date" :> Feb1) @@ ("H1" :> "No") >>,
     metrics |-> << Metric(Jan1, <<30, 5, 6, "a">>),
                    Metric(Feb1, <<45, 7, 8, "b">>) >>]

LegacyStore == [NoFiles EXCEPT ![old_filename] = <<LegacyDocument>>]

PartitionedStore ==
    [NoFiles EXCEPT
        ![habits_filename] = << << Habit(StrId("1"), "Run", 20) >> >>,
        ![data_filename(2024, 1)] =
            << [logs |-> << ("Date" :> Jan1) @@ ("H2" :> "Yes") >>,
                metrics |-> << Metric(Jan1, <<30, 5, 6, "a">>) >>] >>,
        ![journal_filename(2024, 1)] = << (Jan1 :> "t") >>]

----------------------------------------------------------------------------
(* The specifications.                                                     *)

InitWith(stores) ==
    /\ store \in stores
    /\ local \in BOOLEAN
    /\ creds \in IF local THEN {FALSE} ELSE BOOLEAN
    /\ (~local /\ ~creds) => store = NoFiles
    /\ handler = [h \in Handlers |-> NoHandler]
    /\ last = NoCall
    /\ failures = 0

\* The outcomes that no request of the call meets are held at success, and
\* default_habits.json is looked for only when the catalog is empty; defaults
\* says whether that file may exist.
ConstructStep(H, defaults) ==
    \E h \in H, fetch_ok \in Outcomes :
        LET fetch_all == fetch_all_gist_files(fetch_ok)
            seeds == ~migrates(fetch_all) /\ loaded_habits(fetch_all, FALSE, <<>>) = <<>>
        IN  \E defaults_exist \in IF seeds THEN defaults ELSE {FALSE},
               uuid4 \in IF seeds THEN Uuids ELSE {<<>>},
               habits_ok \in IF migrates(fetch_all) \/ seeds THEN Outcomes ELSE {TRUE},
               uploaded \in IF migrates(fetch_all) THEN OutcomeSets(DataFiles) ELSE {DataFiles},
               deleted \in IF migrates(fetch_all) THEN Outcomes ELSE {TRUE} :
                Construct(h, fetch_ok, defaults_exist, uuid4, habits_ok, uploaded, deleted)

LoadMonthStep(H) ==
    \E h \in H, ym \in YMs, fetch_ok \in Outcomes :
        LoadMonth(h, ym[1], ym[2], fetch_ok)

LoadJournalStep(H) ==
    \E h \in H, ym \in YMs, fetch_ok \in Outcomes :
        LoadJournal(h, ym[1], ym[2], fetch_ok)

UpdateHabitStep(H, ids, namegoals) ==
    \E h \in H, habit_id \in ids, ng \in namegoals, upload_ok \in Outcomes :
        UpdateHabit(h, habit_id, ng[1], ng[2], upload_ok)

DeleteHabitStep(H, ids) ==
    \E h \in H, habit_id \in ids, upload_ok \in Outcomes :
        DeleteHabit(h, habit_id, upload_ok)

ResetDataStep(H) ==
    \E h \in H, fetch_ok \in Outcomes :
        \E deleted \in IF Fetched(fetch_ok) = "ok"
                       THEN OutcomeSets({f \in Filenames : store[f] # <<>>})
                       ELSE {Filenames} :
            ResetData(h, fetch_ok, deleted)

SaveLogStep(H, inputs) ==
    \E h \in H, in \in inputs, fetch_ok \in Outcomes, upload_ok \in Outcomes :
        SaveLog(h, in[1], in[2], fetch_ok, upload_ok)

SaveMetricsStep(H, inputs) ==
    \E h \in H, in \in inputs, fetch_ok \in Outcomes, upload_ok \in Outcomes :
        SaveMetrics(h, in[1], in[2], fetch_ok, upload_ok)

SaveJournalStep(H, inputs) ==
    \E h \in H, in \in inputs, fetch_ok \in Outcomes, upload_ok \in Outcomes :
        SaveJournal(h, in[1], in[2], fetch_ok, upload_ok)

GetAllAvailableMonthsStep(H) ==
    \E h \in H, fetch_ok \in Outcomes :
        GetAllAvailableMonths(h, fetch_ok)

LoadAllHistoryStep(H) ==
    \E h \in H, fetch_ok \in Outcomes :
        \E order \in Orders(fetched_data_files(fetch_all_gist_files(fetch_ok))) :
            LoadAllHistory(h, fetch_ok, order)

\* one session on the habit catalog
NextCatalog ==
    \/ ConstructStep({1}, BOOLEAN)
    \/ UpdateHabitStep({1}, HabitIds, NameGoals)
    \/ DeleteHabitStep({1}, HabitIds)
    \/ ResetDataStep({1})

InitCatalog == InitWith({NoFiles, LegacyStore, PartitionedStore})

SpecCatalog == InitCatalog /\ [][NextCatalog]_vars

\* save_log on every date, with both completion maps on 1 January
LogInputs ==
    { <<d, "H1" :> "Yes">> : d \in Dates }
        \cup { <<Day(2024, 1, 1), ("H1" :> "No") @@ ("H2" :> "No")>> }

\* save_metrics on 1 January, with two tuples of values
MetricInputs ==
    { <<Day(2024, 1, 1), <<30, 5, 6, "a">> >>, <<Day(2024, 1, 1), <<60, 1, 2, "c">> >> }

\* one session on the monthly data
NextMonth ==
    \/ ConstructStep({1}, {FALSE})
    \/ LoadMonthStep({1})
    \/ SaveLogStep({1}, LogInputs)
    \/ SaveMetricsStep({1}, MetricInputs)
    \/ ResetDataStep({1})

InitMonth == InitWith({NoFiles, LegacyStore, PartitionedStore})

SpecMonth == InitMonth /\ [][NextMonth]_vars

\* save_journal on every date, with both contents on 1 January
JournalInputs ==
    { <<d, "t">> : d \in Dates } \cup { <<Day(2024, 1, 1), "">> }

\* one session on the journal
NextJournal ==
    \/ ConstructStep({1}, {FALSE})
    \/ LoadMonthStep({1})
    \/ LoadJournalStep({1})
    \/ SaveJournalStep({1}, JournalInputs)
    \/ ResetDataStep({1})

InitJournal == InitWith({NoFiles, PartitionedStore})

SpecJournal == InitJournal /\ [][NextJournal]_vars

\* save_log on 2 January and on 1 February
HistoryLogInputs ==
    { <<Day(2024, 1, 2), "H1" :> "Yes">>, <<Day(2024, 2, 1), "H1" :> "Yes">> }

\* one session that reads the months, the journal and the whole history,
\* saves logs and deletes habits
NextHistory ==
    \/ ConstructStep({1}, {FALSE})
    \/ LoadMonthStep({1})
    \/ LoadJournalStep({1})
    \/ SaveLogStep({1}, HistoryLogInputs)
    \/ DeleteHabitStep({1}, {IntId("1"), StrId("u")})
    \/ GetAllAvailableMonthsStep({1})
    \/ LoadAllHistoryStep({1})

InitHistory == InitWith({NoFiles, LegacyStore, PartitionedStore})

SpecHistory == InitHistory /\ [][NextHistory]_vars

\* save_log on the two days of January
SessionLogInputs ==
    { <<Day(2024, 1, 1), "H1" :> "Yes">>, <<Day(2024, 1, 2), "H1" :> "Yes">> }

\* two sessions on one store, each with a handler of its own
NextSessions ==
    \/ ConstructStep(Handlers, {FALSE})
    \/ LoadMonthStep(Handlers)
    \/ SaveLogStep(Handlers, SessionLogInputs)

InitSessions == InitWith({NoFiles, PartitionedStore})

SpecSessions == InitSessions /\ [][NextSessions]_vars

\* save_journal on 1 January
DurableJournalInputs == { <<Day(2024, 1, 1), "t">> }

\* one session, from its construction on, without reset_data and without a
\* request that fails
NextDurable ==
    \/ ConstructStep({1}, {FALSE}) /\ ~handler[1].constructed /\ failures' = 0
    \/ LoadMonthStep({1}) /\ failures' = 0
    \/ SaveLogStep({1}, LogInputs) /\ failures' = 0
    \/ SaveMetricsStep({1}, MetricInputs) /\ failures' = 0
    \/ LoadJournalStep({1}) /\ failures' = 0
    \/ SaveJournalStep({1}, DurableJournalInputs) /\ failures' = 0
    \/ UpdateHabitStep({1}, {StrId("u")}, {<<"Swim", 10>>}) /\ failures' = 0
    \/ DeleteHabitStep({1}, {StrId("u")}) /\ failures' = 0

InitDurable ==
    /\ InitWith({NoFiles, LegacyStore, PartitionedStore})
    /\ local \/ creds

SpecDurable == InitDurable /\ [][NextDurable]_vars

\* save_log and save_journal on 2 January, save_metrics on 1 January
ResetLogInputs == { <<Day(2024, 1, 2), "H1" :> "Yes">> }

ResetMetricInputs == { <<Day(2024, 1, 1), <<60, 1, 2, "c">> >> }

ResetJournalInputs == { <<Day(2024, 1, 2), "x">> }

\* one session with reset_data among the loads and the daily saves
NextReset ==
    \/ ConstructStep({1}, {FALSE})
    \/ LoadMonthStep({1})
    \/ LoadJournalStep({1})
    \/ SaveLogStep({1}, ResetLogInputs)
    \/ SaveMetricsStep({1}, ResetMetricInputs)
    \/ SaveJournalStep({1}, ResetJournalInputs)
    \/ ResetDataStep({1})

InitReset == InitWith({NoFiles, PartitionedStore})

SpecReset == InitReset /\ [][NextReset]_vars

----------------------------------------------------------------------------
(* What the claims are stated with.                                        *)

\* the handler of the last call, before and after the step
Self == handler[last'.h]

SelfAfter == handler'[last'.h]

\* the entries of a list with the given date string
WithDate(entries, date_str) ==
    {i \in 1 .. Len(entries) : entries[i]["Date"] = date_str}

\* the dict holds value under key
Has(dict, key, value) ==
    key \in DOMAIN dict /\ dict[key] = value

\* every upload of the step that returned True is what the store now holds
UploadsLanded ==
    \A u \in last'.uploads : u.result => store'[u.filename] = <<u.data>>

\* every file the step uploads nothing to successfully and deletes nothing
\* from successfully is as before
OthersKept ==
    \A f \in Filenames :
        (\A u \in last'.uploads : u.filename = f => ~u.result)
            /\ (\A d \in last'.deletes : d.filename = f => ~d.result)
        => store'[f] = store[f]

----------------------------------------------------------------------------
(* C1.  Month auto-switch.                                                 *)

Switches ==
    /\ last'.op = "save_log"
    /\ Self.current_year # 0
    /\ Self.current_month # 0
    /\ <<last'.date.year, last'.date.month>> # <<Self.current_year, Self.current_month>>

\* C1: a save_log(d, map) made while a month other than d's is loaded
\* leaves the month tag at d's month, uploads to data_{y2}_{m2:02d}.json and
\* to no other file a document that holds an entry for d with the values of
\* map, which the store holds once the upload has returned True, and leaves
\* data_{y1}_{m1:02d}.json as it was.
C1_MonthAutoSwitch ==
    [][Switches =>
        LET d == last'.date
            map == last'.args[1]
            target == data_filename(d.year, d.month)
        IN  /\ SelfAfter.current_year = d.year
            /\ SelfAfter.current_month = d.month
            /\ Cardinality(last'.uploads) = 1
            /\ \A u \in last'.uploads :
                /\ u.filename = target
                /\ u.data = SelfAfter.current_month_data
                /\ \E i \in WithDate(u.data.logs, strftime(d)) :
                      \A k \in DOMAIN map : Has(u.data.logs[i], k, map[k])
            /\ UploadsLanded
            /\ store'[data_filename(Self.current_year, Self.current_month)]
                   = store[data_filename(Self.current_year, Self.current_month)]
    ]_vars

\* C1's case: January was loaded and held a stored document, and a save_log
\* for a day of February has been uploaded
C1_Witness ==
    /\ last.op = "save_log"
    /\ last.before = <<2024, 1>>
    /\ last.date.month = 2
    /\ store[data_filename(2024, 1)] # <<>>
    /\ \E u \in last.uploads : u.result

----------------------------------------------------------------------------
(* C2.  Partial merge of the log of a date.                                *)

\* the logs save_log upserts into: those of the month it loads, or the
\* cached ones when it loads none
LogsFound ==
    IF last'.fetch = "none" THEN Self.current_month_data.logs
    ELSE IF last'.fetch = "ok"
              /\ store[data_filename(last'.date.year, last'.date.month)] # <<>>
         THEN store[data_filename(last'.date.year, last'.date.month)][1].logs
    ELSE <<>>

\* C2: after save_log(d, A) and then save_log(d, B) the document of the
\* month holds one entry for d, with B's value for the keys of B and A's
\* value for the other keys of A, and that document is what is uploaded; a
\* save_log makes the logs one entry longer when it finds no entry for d,
\* and no longer otherwise.
C2_LogPartialMerge ==
    [][last'.op = "save_log" =>
        LET d == strftime(last'.date)
            logs == SelfAfter.current_month_data.logs
        IN  /\ Len(logs) = Len(LogsFound)
                    + (IF WithDate(LogsFound, d) = {} THEN 1 ELSE 0)
            /\ \A u \in last'.uploads : u.data = SelfAfter.current_month_data
            /\ UploadsLanded
            /\ (last.op = "save_log" /\ last'.again) =>
                  LET A == last.args[1]
                      B == last'.args[1]
                  IN  /\ Cardinality(WithDate(logs, d)) = 1
                      /\ \A i \in WithDate(logs, d) :
                            /\ \A k \in DOMAIN B : Has(logs[i], k, B[k])
                            /\ \A k \in (DOMAIN A) \ (DOMAIN B) : Has(logs[i], k, A[k])
    ]_vars

\* C2's case: two calls of save_log in a row for one date, the second with
\* another map, have left an entry that has a value from each
C2_Witness ==
    /\ last.op = "save_log"
    /\ last.again
    /\ last.args[1] = ("H1" :> "Yes")
    /\ \E u \in last.uploads :
          /\ u.result
          /\ \E i \in WithDate(u.data.logs, strftime(last.date)) :
                u.data.logs[i] = ("Date" :> strftime(last.date)) @@ ("H1" :> "Yes")
                                     @@ ("H2" :> "No")

----------------------------------------------------------------------------
(* C8.  One entry per date.                                                *)

OnePerDate(entries) ==
    \A i, j \in 1 .. Len(entries) :
        entries[i]["Date"] = entries[j]["Date"] => i = j

\* C8: every monthly document, in the store and in the cache of a handler,
\* has at most one log entry and at most one metrics entry per date.
C8_OneEntryPerDate ==
    /\ \A f \in DataFiles :
          store[f] # <<>> =>
              OnePerDate(store[f][1].logs) /\ OnePerDate(store[f][1].metrics)
    /\ \A h \in Handlers :
          /\ OnePerDate(handler[h].current_month_data.logs)
          /\ OnePerDate(handler[h].current_month_data.metrics)

\* C8's case: a stored month has entries for two dates, after a save_log
\* and a save_metrics that each found an entry of their date
C8_Witness ==
    /\ last.op = "save_metrics"
    /\ last.again
    /\ \E u \in last.uploads :
          /\ u.result
          /\ Len(u.data.logs) >= 2
          /\ store[u.filename] = <<u.data>>
          /\ \E i \in 1 .. Len(u.data.logs) : "H2" \in DOMAIN u.data.logs[i]

----------------------------------------------------------------------------
(* C3.  Migration of the legacy document.                                  *)

\* the entries of a list dated in the month
InMonth(entries, year, month) ==
    SelectSeq(entries, LAMBDA e : /\ strptime_year(e["Date"]) = year
                                  /\ strptime_month(e["Date"]) = month)

\* the monthly document the entries of a month make: those with the mood
\* field are the metrics, the others the logs
SplitByMood(entries) ==
    [logs |-> SelectSeq(entries, LAMBDA e : "Mood (1-10)" \notin DOMAIN e),
     metrics |-> SelectSeq(entries, LAMBDA e : "Mood (1-10)" \in DOMAIN e)]

\* C3: after a construction that found the legacy document, the store holds
\* for every month of a legacy entry the document of the legacy entries of
\* that month, split by the mood field, and no document for another month;
\* habits.json holds the legacy habits; the legacy document is gone.
C3_MigrationCorrect ==
    [][(last'.op = "construct" /\ last'.args[1]) =>
        LET legacy_data == store[old_filename][1]
            entries == legacy_data.logs \o legacy_data.metrics
        IN  /\ store'[old_filename] = <<>>
            /\ store'[habits_filename] = <<legacy_data.habits>>
            /\ \A ym \in YMs :
                  store'[data_filename(ym[1], ym[2])] =
                      IF InMonth(entries, ym[1], ym[2]) = <<>> THEN <<>>
                      ELSE << SplitByMood(InMonth(entries, ym[1], ym[2])) >>
    ]_vars

\* C3 when every request of the construction succeeds
C3_MigrationCorrectWithoutFailure ==
    [][(last'.op = "construct" /\ last'.args[1]
            /\ \A u \in last'.uploads : u.result
            /\ \A d \in last'.deletes : d.result) =>
        LET legacy_data == store[old_filename][1]
            entries == legacy_data.logs \o legacy_data.metrics
        IN  /\ store'[old_filename] = <<>>
            /\ store'[habits_filename] = <<legacy_data.habits>>
            /\ \A ym \in YMs :
                  InMonth(entries, ym[1], ym[2]) # <<>> =>
                      store'[data_filename(ym[1], ym[2])] =
                          << SplitByMood(InMonth(entries, ym[1], ym[2])) >>
    ]_vars

\* a migration has lost the entries of a month: the legacy document is
\* deleted although the upload of a monthly document failed
C3_EntriesLost ==
    /\ last.op = "construct"
    /\ last.args[1]
    /\ store[old_filename] = <<>>
    /\ \E u \in last.uploads : ~u.result /\ store[u.filename] = <<>>

----------------------------------------------------------------------------
(* C4.  Construction without legacy document.                              *)

\* the catalog a construction loads from habits.json, before any seeding
LoadedCatalog ==
    IF last'.fetch = "ok" /\ store[habits_filename] # <<>>
    THEN store[habits_filename][1]
    ELSE <<>>

\* C4: a construction against a store without legacy document deletes
\* nothing, leaves every monthly document and every journal as it is, and
\* uploads at most habits.json, once, and only when the catalog it loaded is
\* empty.
C4_MigrationIdempotent ==
    [][(last'.op = "construct" /\ store[old_filename] = <<>>) =>
        /\ last'.deletes = {}
        /\ Cardinality(last'.uploads) <= 1
        /\ \A u \in last'.uploads : u.filename = habits_filename
        /\ last'.uploads # {} => LoadedCatalog = <<>>
        /\ \A f \in Filenames \ {habits_filename} : store'[f] = store[f]
    ]_vars

\* C4's case: a construction against a store that holds a catalog and a
\* monthly document, and no legacy document, has written nothing
C4_Witness ==
    /\ last.op = "construct"
    /\ ~last.args[1]
    /\ last.fetch = "ok"
    /\ last.uploads = {}
    /\ store[old_filename] = <<>>
    /\ store[habits_filename] # <<>>
    /\ store[data_filename(2024, 1)] # <<>>

\* the other case: the store held no catalog and the defaults were seeded
C4_Seeded ==
    /\ last.op = "construct"
    /\ ~last.args[1]
    /\ Len(handler[last.h].habits) = 2
    /\ \E u \in last.uploads : u.result /\ store[habits_filename] = <<u.data>>

----------------------------------------------------------------------------
(* C5.  Full reset.                                                        *)

\* C5: after reset_data() the store holds no document, the catalog of the
\* handler is empty and its month cache is the empty document.
C5_FullReset ==
    last.op = "reset_data" =>
        /\ \A f \in Filenames : store[f] = <<>>
        /\ handler[last.h].habits = <<>>
        /\ handler[last.h].current_month_data = EmptyMonth

\* C5 when the fetch and every delete request of the call succeed
C5_FullResetWithoutFailure ==
    (last.op = "reset_data" /\ last.fetch = "ok" /\ \A d \in last.deletes : d.result) =>
        /\ \A f \in Filenames : store[f] = <<>>
        /\ handler[last.h].habits = <<>>
        /\ handler[last.h].current_month_data = EmptyMonth

\* reset_data() has returned True and the store still holds a document
C5_ResetKeptDocument ==
    /\ last.op = "reset_data"
    /\ last.returned = <<TRUE>>
    /\ \E f \in Filenames : store[f] # <<>>

----------------------------------------------------------------------------
(* C6.  Upsert of a habit by its ID.                                       *)

\* the records of a catalog whose ID is the given one, and the others
SameId(habits, habit_id) ==
    {i \in 1 .. Len(habits) : str(habits[i]["ID"]) = str(habit_id)}

OtherIds(habits, habit_id) ==
    SelectSeq(habits, LAMBDA h : str(h["ID"]) # str(habit_id))

\* C6: update_habit(id, n, g) leaves the records of the other IDs as they
\* are and uploads the whole catalog to habits.json, which the store holds
\* once the upload has returned True; after update_habit(id, n1, g1) and
\* then update_habit(id, n2, g2) the catalog has one record of that ID, with
\* name n2 and goal g2.
C6_CatalogUpsert ==
    [][last'.op = "update_habit" =>
        LET habit_id == last'.args[1]
            habits == SelfAfter.habits
        IN  /\ OtherIds(habits, habit_id) = OtherIds(Self.habits, habit_id)
            /\ last'.uploads # {}
            /\ \A u \in last'.uploads :
                  u.filename = habits_filename /\ u.data = habits
            /\ UploadsLanded
            /\ \E i \in SameId(habits, habit_id) :
                  /\ Has(habits[i], "Habit Name", last'.args[2])
                  /\ Has(habits[i], "Monthly Goal", last'.args[3])
            /\ (last.op = "update_habit" /\ last'.again) =>
                  /\ Cardinality(SameId(habits, habit_id)) = 1
                  /\ Len(habits) = Len(Self.habits)
    ]_vars

\* C6's case: the second of two calls of update_habit for the ID 1 has
\* renamed the stored record of ID "1", and the catalog has another record
C6_Witness ==
    /\ last.op = "update_habit"
    /\ last.again
    /\ last.args = <<IntId("1"), "Swim", 10>>
    /\ \E u \in last.uploads :
          /\ u.result
          /\ store[habits_filename] = <<u.data>>
          /\ Len(u.data) >= 2
          /\ \E i \in 1 .. Len(u.data) : u.data[i] = Habit(StrId("1"), "Swim", 10)

----------------------------------------------------------------------------
(* C7.  Habit IDs are unique.                                              *)

UniqueIds(habits) ==
    \A i, j \in 1 .. Len(habits) :
        str(habits[i]["ID"]) = str(habits[j]["ID"]) => i = j

\* C7: no two records of the catalog of a handler, and no two records of
\* the stored habits.json, have the same ID (nor IDs with the same str()).
C7_UniqueHabitIds ==
    /\ \A h \in Handlers : UniqueIds(handler[h].habits)
    /\ store[habits_filename] # <<>> => UniqueIds(store[habits_filename][1])

\* C7's case: update_habit with the ID 1 on a catalog that holds the ID "1"
\* and another ID has been stored
C7_Witness ==
    /\ last.op = "update_habit"
    /\ last.args[1] = IntId("1")
    /\ store[habits_filename] = <<handler[last.h].habits>>
    /\ Len(handler[last.h].habits) >= 2
    /\ \E i \in 1 .. Len(handler[last.h].habits) :
          handler[last.h].habits[i]["ID"] = StrId("1")

----------------------------------------------------------------------------
(* C9.  Upsert of a journal entry by its date.                             *)

\* the journal the store holds for the month of the last call's date,
\* before the step and after it
StoredJournal ==
    LET f == journal_filename(last'.date.year, last'.date.month)
    IN  IF store[f] # <<>> THEN store[f][1] ELSE EmptyDict

StoredJournalAfter ==
    store'[journal_filename(last'.date.year, last'.date.month)]

\* C9: after a save_journal(d, c), in a run where no request has failed and
\* the upload has returned True, the stored journal of d's month is what was
\* stored before (the empty mapping if there was none) with c under d: the
\* other entries of the month are kept and none of another month is added.
C9_JournalUpsert ==
    [][(/\ last'.op = "save_journal"
        /\ failures' = 0
        /\ \A u \in last'.uploads : u.result) =>
        StoredJournalAfter
            = << dict_update(StoredJournal, strftime(last'.date) :> last'.args[1]) >>
    ]_vars

\* C9 for the calls that load the journal of d's month before the write
C9_JournalUpsertWhenLoaded ==
    [][(/\ last'.op = "save_journal"
        /\ last'.fetch = "ok"
        /\ \A u \in last'.uploads : u.result) =>
        StoredJournalAfter
            = << dict_update(StoredJournal, strftime(last'.date) :> last'.args[1]) >>
    ]_vars

\* a save_journal that loaded nothing has replaced a stored journal by one
\* that lacks an entry the stored one had
C9_EntryLost ==
    /\ last.op = "save_journal"
    /\ last.fetch = "none"
    /\ \E u \in last.uploads :
          /\ u.result
          /\ u.filename = journal_filename(2024, 1)
          /\ Jan1 \notin DOMAIN u.data
          /\ store[u.filename] = <<u.data>>

----------------------------------------------------------------------------
(* C10.  Failed writes and what the caller gets.                           *)

WriteOps ==
    {"update_habit", "delete_habit", "save_log", "save_metrics", "save_journal"}

\* C10: a public write method whose upload failed returns False.
C10_WriteFailureSurfaced ==
    (last.op \in WriteOps /\ \E u \in last.uploads : ~u.result) =>
        last.returned = <<FALSE>>

\* what the methods return: None, whatever the upload returned
C10_WritesReturnNone ==
    last.op \in WriteOps => last.returned = <<>>

\* a write method has returned after an upload that failed
C10_UploadFailed ==
    /\ last.op \in WriteOps
    /\ \E u \in last.uploads : ~u.result

----------------------------------------------------------------------------
(* C11.  Reads fail softly.                                                *)

ReadOps ==
    {"load_month", "load_journal", "load_all_history", "get_all_available_months"}

\* C11: without credentials, and when the request fails, _fetch_all_gist_files
\* returns the empty mapping; load_month then returns (and caches) the empty
\* document, load_journal the empty mapping, load_all_history the empty
\* history and get_all_available_months the empty list.
C11_ReadsFailSoftly ==
    /\ ~local => fetch_all_gist_files(FALSE) = NoFiles
    /\ (~local /\ ~creds) => fetch_all_gist_files(TRUE) = NoFiles
    /\ (last.op \in ReadOps /\ last.fetch = "failed") =>
          /\ last.op = "load_month" =>
                /\ last.returned = <<EmptyMonth>>
                /\ handler[last.h].current_month_data = EmptyMonth
          /\ last.op = "load_journal" =>
                /\ last.returned = <<EmptyDict>>
                /\ handler[last.h].current_journal_data = EmptyDict
          /\ last.op = "load_all_history" =>
                last.returned = << [logs |-> <<>>, metrics |-> <<>>] >>
          /\ last.op = "get_all_available_months" => last.returned = << <<>> >>

\* C11's case: load_all_history has returned after a request that failed,
\* while the store holds a monthly document
C11_Witness ==
    /\ last.op = "load_all_history"
    /\ last.fetch = "failed"
    /\ creds
    /\ \E f \in DataFiles : store[f] # <<>>

----------------------------------------------------------------------------
(* C12.  What delete_habit leaves alone.                                   *)

\* C12: delete_habit(id) leaves no record of that ID in the catalog and the
\* other records as they were, uploads the catalog to habits.json and to no
\* other file (the store holds it once the upload has returned True), and
\* leaves every other file of the store, the month cache with its tag and
\* the journal cache as they were.
C12_DeleteHabitFrame ==
    [][last'.op = "delete_habit" =>
        LET habit_id == last'.args[1]
        IN  /\ SameId(SelfAfter.habits, habit_id) = {}
            /\ SelfAfter.habits = OtherIds(Self.habits, habit_id)
            /\ Cardinality(last'.uploads) = 1
            /\ \A u \in last'.uploads :
                  u.filename = habits_filename /\ u.data = SelfAfter.habits
            /\ UploadsLanded
            /\ last'.deletes = {}
            /\ \A f \in Filenames \ {habits_filename} : store'[f] = store[f]
            /\ SelfAfter.current_month_data = Self.current_month_data
            /\ SelfAfter.current_journal_data = Self.current_journal_data
            /\ SelfAfter.current_year = Self.current_year
            /\ SelfAfter.current_month = Self.current_month
    ]_vars

\* C12's case: in a run without failed request the habit of ID "1" has been
\* deleted by delete_habit(1), and the loaded month and its stored document
\* still have the log entry that was stored with the catalog
C12_Witness ==
    /\ last.op = "delete_habit"
    /\ last.args[1] = IntId("1")
    /\ failures = 0
    /\ (local \/ creds)
    /\ store[habits_filename] = << <<>> >>
    /\ handler[last.h].current_year = 2024
    /\ handler[last.h].current_month = 1
    /\ \E i \in 1 .. Len(handler[last.h].current_month_data.logs) :
          Has(handler[last.h].current_month_data.logs[i], "H2", "Yes")
    /\ store[data_filename(2024, 1)] = << handler[last.h].current_month_data >>

----------------------------------------------------------------------------
(* C13.  The history of all months.                                        *)

\* how often a list holds an entry
Count(entries, e) ==
    Cardinality({i \in 1 .. Len(entries) : entries[i] = e})

\* the stored monthly documents
StoredMonths == { store[f][1] : f \in {g \in DataFiles : store[g] # <<>>} }

\* how often the stored monthly documents hold an entry among their logs,
\* and among their metrics
RECURSIVE CountLogs(_, _)
CountLogs(files, e) ==
    IF files = {} THEN 0
    ELSE LET f == CHOOSE g \in files : TRUE
         IN  (IF store[f] # <<>> THEN Count(store[f][1].logs, e) ELSE 0)
                 + CountLogs(files \ {f}, e)

RECURSIVE CountMetrics(_, _)
CountMetrics(files, e) ==
    IF files = {} THEN 0
    ELSE LET f == CHOOSE g \in files : TRUE
         IN  (IF store[f] # <<>> THEN Count(store[f][1].metrics, e) ELSE 0)
                 + CountMetrics(files \ {f}, e)

\* the entries of a list, as a set
Range(entries) == { entries[i] : i \in 1 .. Len(entries) }

\* C13: what load_all_history() returns after a successful fetch holds,
\* among its logs and among its metrics, every entry as often as the stored
\* monthly documents together do, in whatever order the files are
\* enumerated and whatever the month cache holds.
C13_HistoryAggregation ==
    (last.op = "load_all_history" /\ last.fetch = "ok") =>
        LET all == last.returned[1]
            logs == Range(all.logs) \cup UNION { Range(m.logs) : m \in StoredMonths }
            metrics == Range(all.metrics)
                           \cup UNION { Range(m.metrics) : m \in StoredMonths }
        IN  /\ \A e \in logs : Count(all.logs, e) = CountLogs(DataFiles, e)
            /\ \A e \in metrics : Count(all.metrics, e) = CountMetrics(DataFiles, e)

\* C13's case: load_all_history has read two stored months, February
\* first, while the cache of the loaded month differs from the stored
\* document of that month
C13_Witness ==
    /\ last.op = "load_all_history"
    /\ last.fetch = "ok"
    /\ last.args[1] = << data_filename(2024, 2), data_filename(2024, 1) >>
    /\ Len(last.returned[1].logs) >= 2
    /\ has_current_month(handler[last.h])
    /\ store[data_filename(handler[last.h].current_year,
                           handler[last.h].current_month)]
           \notin { <<>>, << handler[last.h].current_month_data >> }

----------------------------------------------------------------------------
(* C14.  Upsert of the metrics of a date.                                  *)

\* C14: save_metrics(d, values) leaves the month tag at d's month and
\* uploads to that month's file, and to no other, the cached document, in
\* which the first metrics entry of d is exactly the Date with the four
\* values of the call (the store holds the document once the upload has
\* returned True); after two calls in a row for d the document has one
\* metrics entry for d, that of the second call.
C14_MetricsUpsert ==
    [][last'.op = "save_metrics" =>
        LET d == last'.date
            metrics == SelfAfter.current_month_data.metrics
            i == FirstWithDate(metrics, strftime(d))
        IN  /\ SelfAfter.current_year = d.year
            /\ SelfAfter.current_month = d.month
            /\ Cardinality(last'.uploads) = 1
            /\ \A u \in last'.uploads :
                  /\ u.filename = data_filename(d.year, d.month)
                  /\ u.data = SelfAfter.current_month_data
            /\ UploadsLanded
            /\ i # 0
            /\ metrics[i] = Metric(strftime(d), last'.args[1])
            /\ (last.op = "save_metrics" /\ last'.again) =>
                  Cardinality(WithDate(metrics, strftime(d))) = 1
    ]_vars

\* C14's case: the second of two calls of save_metrics in a row for
\* 1 January, with values other than those stored before, has been stored
C14_Witness ==
    /\ last.op = "save_metrics"
    /\ last.again
    /\ last.args[1] = <<60, 1, 2, "c">>
    /\ \E u \in last.uploads :
          /\ u.result
          /\ store[u.filename] = <<u.data>>
          /\ u.data.metrics = << Metric(Jan1, <<60, 1, 2, "c">>) >>

----------------------------------------------------------------------------
(* C15.  load_month replaces the cache.                                    *)

\* the document load_month finds for the month it is called with
MonthFound ==
    LET f == data_filename(last'.date.year, last'.date.month)
    IN  IF last'.fetch = "ok" /\ store[f] # <<>> THEN store[f][1] ELSE EmptyMonth

\* C15: load_month(year, month) leaves the month tag at (year, month) and
\* the cache equal to the stored document of that month, or to the empty
\* document when the fetched files have none; it returns the cache and
\* writes nothing.
C15_LoadMonthReplaces ==
    [][last'.op = "load_month" =>
        /\ SelfAfter.current_year = last'.date.year
        /\ SelfAfter.current_month = last'.date.month
        /\ SelfAfter.current_month_data = MonthFound
        /\ last'.returned = <<MonthFound>>
        /\ last'.uploads = {}
        /\ last'.deletes = {}
        /\ store' = store
    ]_vars

\* C15's case: with January loaded and stored, load_month(2024, 2) has
\* found no document and left the empty one in the cache
C15_Witness ==
    /\ last.op = "load_month"
    /\ last.fetch = "ok"
    /\ last.before = <<2024, 1>>
    /\ last.date.month = 2
    /\ store[data_filename(2024, 1)] # <<>>
    /\ store[data_filename(2024, 2)] = <<>>
    /\ handler[last.h].current_month_data = EmptyMonth

\* the other case: load_month(2024, 2) has replaced January by the stored
\* February
C15_Replaced ==
    /\ last.op = "load_month"
    /\ last.fetch = "ok"
    /\ last.before = <<2024, 1>>
    /\ last.date.month = 2
    /\ store[data_filename(2024, 1)] # <<>>
    /\ store[data_filename(2024, 2)] = << handler[last.h].current_month_data >>

----------------------------------------------------------------------------
(* C16.  Migration runs once.                                              *)

\* C16: at most one construction takes the legacy branch, and after a
\* construction that took it the store holds no legacy document.
C16_MigratesOnce ==
    /\ last.migrations <= 1
    /\ (last.op = "construct" /\ last.args[1]) => store[old_filename] = <<>>

\* C16 when no delete request fails
C16_MigratesOnceWithoutFailure ==
    (last.op = "construct" /\ last.args[1] /\ \A d \in last.deletes : d.result)
        => store[old_filename] = <<>>

\* a second construction has taken the legacy branch and has put the
\* legacy habits into habits.json again
C16_MigratedTwice ==
    /\ last.op = "construct"
    /\ last.args[1]
    /\ last.migrations = 2
    /\ \E u \in last.uploads :
          /\ u.filename = habits_filename
          /\ u.result
          /\ u.data = LegacyDocument.habits
          /\ store[habits_filename] = <<u.data>>

\* habits.json holds a habit that update_habit added after a migration
\* whose delete request failed: what the second migration overwrites
C16_WrittenAfterMigration ==
    /\ last.op = "update_habit"
    /\ last.migrations = 1
    /\ store[old_filename] # <<>>
    /\ \E u \in last.uploads :
          u.result /\ Len(u.data) = 2 /\ store[habits_filename] = <<u.data>>

----------------------------------------------------------------------------
(* C17.  The last write wins between two sessions.                         *)

\* the entries a list holds for a date
EntriesOf(entries, date_str) ==
    { entries[i] : i \in WithDate(entries, date_str) }

\* a save_log of session B for the date d2 right after a save_log of
\* another session for another date d1 of the same month, B holding that
\* month already, and B's upload returning True
StaleWrite ==
    /\ last.op = "save_log"
    /\ last'.op = "save_log"
    /\ last'.h # last.h
    /\ last'.date # last.date
    /\ last'.date.year = last.date.year
    /\ last'.date.month = last.date.month
    /\ Self.current_year = last'.date.year
    /\ Self.current_month = last'.date.month
    /\ \A u \in last'.uploads : u.result

\* C17: after such a write the stored document of the month is B's cache
\* as a whole: it has B's entry for d2, and for d1 the entries that B's
\* cache had before and no other, so none when B's cache had none; nothing
\* of the store is fetched or merged.
C17_LastWriteWins ==
    [][StaleWrite =>
        LET f == data_filename(last'.date.year, last'.date.month)
            d1 == strftime(last.date)
            d2 == strftime(last'.date)
            map == last'.args[1]
        IN  /\ last'.fetch = "none"
            /\ store'[f] = << SelfAfter.current_month_data >>
            /\ \E e \in EntriesOf(store'[f][1].logs, d2) :
                  \A k \in DOMAIN map : Has(e, k, map[k])
            /\ EntriesOf(store'[f][1].logs, d1)
                   = EntriesOf(Self.current_month_data.logs, d1)
    ]_vars

\* C17's case, in a run without failed request: session 1 holds its entry
\* of 1 January with H1, session 2 has then saved 2 January from its older
\* cache, and the stored document is that of session 2, without H1 on
\* 1 January
C17_Witness ==
    /\ last.op = "save_log"
    /\ last.h = 2
    /\ last.date = Day(2024, 1, 2)
    /\ last.fetch = "none"
    /\ failures = 0
    /\ (local \/ creds)
    /\ handler[1].current_year = 2024
    /\ handler[1].current_month = 1
    /\ \E e \in EntriesOf(handler[1].current_month_data.logs, Jan1) : Has(e, "H1", "Yes")
    /\ store[data_filename(2024, 1)] = << handler[2].current_month_data >>
    /\ \A e \in EntriesOf(store[data_filename(2024, 1)][1].logs, Jan1) :
          "H1" \notin DOMAIN e

----------------------------------------------------------------------------
(* C18.  The legacy document is never written.                             *)

\* C18: no call uploads to habit_tracker_data.json; a step leaves that file
\* as it is or removes it, and removes it only by a delete request of a
\* construction or of reset_data.
C18_LegacyNeverWritten ==
    [][/\ \A u \in last'.uploads : u.filename # old_filename
       /\ store'[old_filename] \in { store[old_filename], <<>> }
       /\ store'[old_filename] # store[old_filename] =>
             /\ last'.op \in {"construct", "reset_data"}
             /\ \E d \in last'.deletes : d.filename = old_filename /\ d.result
    ]_vars

\* C18's case: after a migration save_log has stored a document, and the
\* store holds no legacy document
C18_Witness ==
    /\ last.op = "save_log"
    /\ last.migrations = 1
    /\ store[old_filename] = <<>>
    /\ \E u \in last.uploads : u.result /\ store[u.filename] = <<u.data>>

----------------------------------------------------------------------------
(* C19.  The entries of a month are in the document of that month.         *)

\* every entry of the list is dated in the month
DatedIn(entries, year, month) ==
    \A i \in 1 .. Len(entries) :
        /\ strptime_year(entries[i]["Date"]) = year
        /\ strptime_month(entries[i]["Date"]) = month

\* C19: every log entry and every metrics entry of a stored monthly
\* document, and of the month cache of a handler, is dated in the month of
\* the document, the month of the cache being the month tag (without tag
\* the cache is empty).
C19_MonthContainment ==
    /\ \A f \in DataFiles :
          store[f] # <<>> =>
              /\ DatedIn(store[f][1].logs, f.year, f.month)
              /\ DatedIn(store[f][1].metrics, f.year, f.month)
    /\ \A h \in Handlers :
          /\ DatedIn(handler[h].current_month_data.logs,
                     handler[h].current_year, handler[h].current_month)
          /\ DatedIn(handler[h].current_month_data.metrics,
                     handler[h].current_year, handler[h].current_month)

\* C19's case: after a migration that left a document for each of two
\* months, a save_log for February made with January loaded has been stored
C19_Witness ==
    /\ last.op = "save_log"
    /\ last.migrations = 1
    /\ last.before = <<2024, 1>>
    /\ last.date = Day(2024, 2, 1)
    /\ \E u \in last.uploads : u.result /\ store[u.filename] = <<u.data>>
    /\ store[data_filename(2024, 1)] # <<>>
    /\ Len(store[data_filename(2024, 1)][1].logs) >= 1
    /\ Len(store[data_filename(2024, 2)][1].metrics) >= 1

----------------------------------------------------------------------------
(* C20.  Saved log values last through a session.                          *)

\* the value a call leaves for the key k of the stored log entry e of the
\* file f: that of the call if it is a save_log for e's date that gives a
\* value for k, the stored one otherwise
ValueAfter(e, k) ==
    IF /\ last'.op = "save_log"
       /\ strftime(last'.date) = e["Date"]
       /\ k \in DOMAIN last'.args[1]
    THEN last'.args[1][k]
    ELSE e[k]

\* C20: in a session whose requests all succeed, every call after the
\* construction other than reset_data leaves, for every stored log entry,
\* an entry of the same date in the same monthly document, in which each
\* key of the stored entry has the value save_log gives it in this call, or
\* else the value it had; and a save_log(d, map) leaves in the stored
\* document of d's month an entry of d with the values of map.  So the
\* entry of d stays, each key with the value saved last.
C20_DurableLogs ==
    [][(last'.op # "construct") =>
        /\ \A f \in DataFiles :
              store[f] # <<>> =>
                  /\ store'[f] # <<>>
                  /\ \A e \in Range(store[f][1].logs) :
                        \E e2 \in Range(store'[f][1].logs) :
                            /\ e2["Date"] = e["Date"]
                            /\ \A k \in DOMAIN e : Has(e2, k, ValueAfter(e, k))
        /\ last'.op = "save_log" =>
              LET f == data_filename(last'.date.year, last'.date.month)
              IN  /\ store'[f] # <<>>
                  /\ \E e2 \in EntriesOf(store'[f][1].logs, strftime(last'.date)) :
                        \A k \in DOMAIN last'.args[1] :
                            Has(e2, k, last'.args[1][k])
    ]_vars

\* C20's case: 1 January was saved with H1 and H2 "No" and then with H1
\* "Yes"; after that February was saved with January loaded, and the stored
\* January still has the entry with H1 "Yes" and H2 "No"
C20_Witness ==
    /\ last.op = "save_log"
    /\ last.date = Day(2024, 2, 1)
    /\ last.before = <<2024, 1>>
    /\ store[data_filename(2024, 2)] # <<>>
    /\ store[data_filename(2024, 1)] # <<>>
    /\ \E e \in EntriesOf(store[data_filename(2024, 1)][1].logs, Jan1) :
          Has(e, "H1", "Yes") /\ Has(e, "H2", "No")

----------------------------------------------------------------------------
(* C21.  A failed read and the stored month.                               *)

\* a save_log or save_metrics whose upload returns True, made on the empty
\* document that a failed fetch of load_month has left: the fetch of its
\* own switch of month, or that of a load_month called just before for the
\* month of the date
SaveAfterFailedRead ==
    /\ last'.op \in {"save_log", "save_metrics"}
    /\ \A u \in last'.uploads : u.result
    /\ \/ last'.fetch = "failed"
       \/ /\ last'.fetch = "none"
          /\ last.op = "load_month"
          /\ last.h = last'.h
          /\ last.fetch = "failed"

\* C21: such a save removes from the stored document of the month no log
\* entry and no metrics entry of another date.
C21_FailedReadKeepsData ==
    [][(SaveAfterFailedRead /\ creds) =>
        LET f == data_filename(last'.date.year, last'.date.month)
            d == strftime(last'.date)
        IN  store[f] # <<>> =>
                /\ \A e \in Range(store[f][1].logs) :
                      e["Date"] # d => e \in Range(store'[f][1].logs)
                /\ \A e \in Range(store[f][1].metrics) :
                      e["Date"] # d => e \in Range(store'[f][1].metrics)
    ]_vars

\* a save_log for 2 January whose fetch failed has stored a January that
\* holds nothing but its own entry
C21_MonthOverwritten ==
    /\ last.op = "save_log"
    /\ last.date = Day(2024, 1, 2)
    /\ last.fetch = "failed"
    /\ creds
    /\ \E u \in last.uploads :
          /\ u.result
          /\ u.data = [logs |-> << ("Date" :> strftime(last.date)) @@ last.args[1] >>,
                       metrics |-> <<>>]
          /\ store[data_filename(2024, 1)] = <<u.data>>

----------------------------------------------------------------------------
(* C22.  Reset is final.                                                   *)

\* a daily save of the handler that has just returned from reset_data, in
\* a run where no request has failed (so the reset has emptied the store)
\* and with the upload returning True
FirstSaveAfterReset ==
    /\ last.op = "reset_data"
    /\ last'.op \in {"save_log", "save_metrics", "save_journal"}
    /\ last'.h = last.h
    /\ failures' = 0
    /\ \A u \in last'.uploads : u.result

\* C22, for the first save after the reset: the document it writes holds
\* what the call supplies and nothing else, and no other document appears
\* in the store.
C22_ResetIsFinal ==
    [][FirstSaveAfterReset =>
        LET d == strftime(last'.date)
        IN  /\ \A u \in last'.uploads :
                  /\ last'.op = "save_log" =>
                        u.data = [logs |-> << ("Date" :> d) @@ last'.args[1] >>,
                                  metrics |-> <<>>]
                  /\ last'.op = "save_metrics" =>
                        u.data = [logs |-> <<>>,
                                  metrics |-> << Metric(d, last'.args[1]) >>]
                  /\ last'.op = "save_journal" => u.data = (d :> last'.args[1])
            /\ \A f \in Filenames :
                  store'[f] # <<>> => \E u \in last'.uploads : u.filename = f
    ]_vars

\* C22 for save_log and save_metrics alone
C22_ResetIsFinalForMonths ==
    [][(FirstSaveAfterReset /\ last'.op # "save_journal") =>
        LET d == strftime(last'.date)
        IN  /\ \A u \in last'.uploads :
                  /\ last'.op = "save_log" =>
                        u.data = [logs |-> << ("Date" :> d) @@ last'.args[1] >>,
                                  metrics |-> <<>>]
                  /\ last'.op = "save_metrics" =>
                        u.data = [logs |-> <<>>,
                                  metrics |-> << Metric(d, last'.args[1]) >>]
            /\ \A f \in Filenames :
                  store'[f] # <<>> => \E u \in last'.uploads : u.filename = f
    ]_vars

\* in a run without failed request reset_data has deleted habits.json, and
\* a save_journal for 2 January made after it has stored a journal that
\* holds the entry of 1 January again, which no call of the run supplied
C22_EntryReappeared ==
    /\ last.op = "save_journal"
    /\ failures = 0
    /\ (local \/ creds)
    /\ store[habits_filename] = <<>>
    /\ store[journal_filename(2024, 1)] # <<>>
    /\ Has(store[journal_filename(2024, 1)][1], Jan1, "t")

----------------------------------------------------------------------------
(* C23.  What the daily saves leave alone.                                 *)

\* the document a save_log or save_metrics upserts into: the cache when it
\* loads nothing, the document load_month finds otherwise
DocumentFound ==
    IF last'.fetch = "none" THEN Self.current_month_data ELSE MonthFound

\* the entries of a list dated otherwise
OtherDates(entries, date_str) ==
    SelectSeq(entries, LAMBDA e : e["Date"] # date_str)

\* the file of the month of the last call's date holds the document the
\* call upserts into (or holds none, that document being the empty one)
FoundIsStored ==
    LET f == data_filename(last'.date.year, last'.date.month)
    IN  \/ store[f] = <<DocumentFound>>
        \/ store[f] = <<>> /\ DocumentFound = EmptyMonth

C23_FoundIsStoredWithoutFailure ==
    [][(/\ last'.op \in {"save_log", "save_metrics"}
        /\ failures' = 0
        /\ \E u \in last'.uploads : u.result) => FoundIsStored]_vars

====
